---- MODULE Spec2Model ----
(***************************************************************************)
(* Remote OCR parsers of paperless-ngx:                                    *)
(*   - RestOcrDocumentParser  (src/src/paperless_rest_ocr/parsers.py)      *)
(*   - RemoteDocumentParser   (src/src/paperless_remote/parsers.py)        *)
(* One parse call of one parser instance is modelled as a state machine.   *)
(* The transport (requests.post / httpx / the provider SDK) is the         *)
(* environment: every outcome it can produce is a nondeterministic input.  *)
(***************************************************************************)
EXTENDS Integers, Sequences, FiniteSets, TLC

VARIABLES
    parser,       \* which parser class this instance is: "rest" | "remote"
    settings,     \* self.settings, resolved at construction
    doc,          \* the document handed to parse: readable?, mime type
    pc,           \* position of the parse call
    attempt,      \* argument `attempt` of the running make_api_request frame
    posts,        \* number of transport invocations (requests.post / client.post)
    postLog,      \* attempt number of every requests.post, in order
    sleepLog,     \* argument of every time.sleep, in order
    responses,    \* class of every transport outcome received, in order
    lastOutcome,  \* the outcome of the latest transport invocation
    text,         \* self.text
    archive_path, \* self.archive_path
    result,       \* how parse ended: none | returned | raised(ParseError message)
    clientsMade,  \* provider / httpx clients created by the call
    clientsOpen,  \* of these, the ones not yet closed
    calls,        \* provider / bridge network calls of the remote parser, in order
    errorLogs,    \* number of self.log.error calls
    archiveFile,  \* bytes of the file at tempdir/archive.pdf (None: no such file)
    call,         \* the call being made: a pure method with its argument, or the
                  \* n-th parse on the same parser instance
    ret,          \* what that call returned; what the previous parse left
    requestLog,   \* what every transport invocation was made with, in order
    transport     \* a scripted transport: the outcomes it gives, in order, to
                  \* every parse call (<<>>: the transport is not scripted)

vars == << parser, settings, doc, pc, attempt, posts, postLog, sleepLog,
           responses, lastOutcome, text, archive_path, result,
           clientsMade, clientsOpen, calls, errorLogs, archiveFile, call, ret,
           requestLog, transport >>

cfgVars == << parser, settings, doc, transport >>
pureVars == << call, ret >>
restVars == << attempt, postLog, sleepLog, responses, lastOutcome >>
remoteVars == << clientsMade, clientsOpen, calls, errorLogs >>

----------------------------------------------------------------------------
(* Bounds of the model *)

\* largest configured retry count explored
MaxRetry == 3

\* smallest (non-positive) configured retry count explored is -MinRetryBelow
MinRetryBelow == 1

----------------------------------------------------------------------------
(* Values *)

\* Python None, for fields that hold a string or None
None == "None"

\* strings the service can send as text, as sequences of characters
Texts == { <<>>, <<" ">>, <<"X">>, <<" ", "X", " ">> }

\* variant: only None counts as unset, "" passes
Truthy_NotNone(x) == x # None

\* Python truthiness of a configured string (None and "" are falsy)
Truthy(x) == x \notin {None, ""}

\* JSON values found under the keys of a response object
StrVal(s) == [t |-> "str", s |-> s, hasText |-> FALSE]
ObjVal(hasText, s) == [t |-> "obj", s |-> s, hasText |-> hasText]
NumVal == [t |-> "num", s |-> <<>>, hasText |-> FALSE]
NullVal == [t |-> "null", s |-> <<>>, hasText |-> FALSE]

\* a string; an object {"text": s}; an object without "text"; a non-zero
\* number; null
JsonValues == { StrVal(s) : s \in Texts }
              \cup { ObjVal(TRUE, <<"X">>), ObjVal(FALSE, <<>>), NumVal, NullVal }

JsonKeys == {"text", "content", "ocr_text", "result", "metadata"}

EmptyDict == [k \in {} |-> NumVal]

\* response objects: at most two keys
JsonDicts == UNION { [ks -> JsonValues] :
                       ks \in { s \in SUBSET JsonKeys : Cardinality(s) <= 2 } }

\* what requests.post can do: raise Timeout, return a response whose
\* raise_for_status raises HTTPError (400..599), raise another
\* RequestException (connection error), or return a 2xx response
NoBody == [json |-> "none", d |-> EmptyDict, raw |-> <<>>]

HttpErrorStatuses == {400, 404, 499, 500, 503}

OkBodies == { [json |-> "dict", d |-> d, raw |-> <<>>] : d \in JsonDicts }
            \cup { [json |-> "list", d |-> EmptyDict, raw |-> <<>>] }
            \cup { [json |-> "notjson", d |-> EmptyDict, raw |-> s] : s \in Texts }

RestOutcomes ==
    { [kind |-> "timeout", status |-> 0, body |-> NoBody],
      [kind |-> "conn_error", status |-> 0, body |-> NoBody] }
    \cup { [kind |-> "http_error", status |-> c, body |-> NoBody] : c \in HttpErrorStatuses }
    \cup { [kind |-> "ok", status |-> 200, body |-> b] : b \in OkBodies }

NoOutcome == [kind |-> "none", status |-> 0, body |-> NoBody]

\* class of an outcome as the spec's failure taxonomy names it
OutcomeClass(o) ==
    CASE o.kind = "timeout" -> "Timeout"
      [] o.kind = "conn_error" -> "TransportError"
      [] o.kind = "http_error" /\ o.status >= 500 -> "ServerError"
      [] o.kind = "http_error" -> "ClientError"
      [] OTHER -> "Ok"

RetryableClasses == {"Timeout", "TransportError", "ServerError"}

----------------------------------------------------------------------------
(* ParseError messages, as the parts the code puts into them *)

Msg(kind, status, attempts, keys, exc) ==
    [kind |-> kind, status |-> status, attempts |-> attempts, keys |-> keys, exc |-> exc]

\* str(e) of the exceptions that can be raised, by class name
ExcText(exc) ==
    CASE exc = "OSError" -> "[Errno 2] No such file or directory"
      [] exc = "AttributeError" -> "object has no attribute"
      [] exc = "ReadTimeout" -> "The read operation timed out"
      [] exc = "ConnectError" -> "Connection refused"
      [] OTHER -> ""

\* "REST OCR endpoint is not configured. ..."
MsgNotConfigured == Msg("not_configured", 0, 0, {}, "")
\* variant: the timeout message without the attempt count
MsgTimeout_NoCount(a) == Msg("timed_out", 0, 0, {}, "")

\* "REST OCR request timed out after T seconds. All {attempt} attempts failed."
MsgTimeout(a) == Msg("timed_out", 0, a, {}, "")
\* "REST OCR API returned HTTP error: {status}[ - text]"
MsgHttpError(status) == Msg("http_error", status, 0, {}, "")
\* "REST OCR request failed: {e}. All {attempt} attempts failed."
MsgRequestFailed(a) == Msg("request_failed", 0, a, {}, "")
\* "Could not extract text from REST OCR response. Response keys: [...]"
MsgNoText(keys) == Msg("no_text", 0, 0, keys, "")
\* "Unexpected error during REST OCR parsing: {class name}: {e}"
MsgUnexpected(exc) == Msg("unexpected", 0, 0, {}, exc \o ": " \o ExcText(exc))

NoResult == [how |-> "none", msg |-> Msg("", 0, 0, {}, "")]
Returned == [how |-> "returned", msg |-> Msg("", 0, 0, {}, "")]
Raised(m) == [how |-> "raised", msg |-> m]

----------------------------------------------------------------------------
(* RestOcrDocumentParser: pure parts *)

IsSpace(c) == c = " "

RECURSIVE LStrip(_)
LStrip(s) == IF s # <<>> /\ IsSpace(Head(s)) THEN LStrip(Tail(s)) ELSE s

RECURSIVE RStrip(_)
RStrip(s) == IF s # <<>> /\ IsSpace(s[Len(s)]) THEN RStrip(SubSeq(s, 1, Len(s) - 1)) ELSE s

\* str.strip()
Strip(s) == RStrip(LStrip(s))

\* response.json(), or {"text": response.text} when the body is not JSON
ResponseData(body) ==
    IF body.json = "notjson"
    THEN [json |-> "dict", d |-> [k \in {"text"} |-> StrVal(body.raw)], raw |-> <<>>]
    ELSE body

Value(v) == [how |-> "value", v |-> v, msg |-> Msg("", 0, 0, {}, "")]
RaiseParseError(m) == [how |-> "ParseError", v |-> NullVal, msg |-> m]
RaiseOther(exc) == [how |-> "Exception", v |-> NullVal, msg |-> Msg("", 0, 0, {}, exc)]

\* variant: content is looked up before text
extract_text_content_first(response_data) ==
    IF response_data.json # "dict"
    THEN RaiseOther("AttributeError")
    ELSE LET d == response_data.d
             keys == DOMAIN d
         IN  IF "content" \in keys THEN Value(d["content"])
             ELSE IF "text" \in keys THEN Value(d["text"])
             ELSE IF "ocr_text" \in keys THEN Value(d["ocr_text"])
             ELSE IF "result" \in keys /\ d["result"].t = "str" THEN Value(d["result"])
             ELSE IF "result" \in keys /\ d["result"].t = "obj" /\ d["result"].hasText
                  THEN Value(StrVal(d["result"].s))
             ELSE RaiseParseError(MsgNoText(keys))

\* variant: an object without a recognised key yields an empty text
extract_text_lenient(response_data) ==
    IF response_data.json # "dict"
    THEN RaiseOther("AttributeError")
    ELSE LET d == response_data.d
             keys == DOMAIN d
         IN  IF "text" \in keys THEN Value(d["text"])
             ELSE IF "content" \in keys THEN Value(d["content"])
             ELSE IF "ocr_text" \in keys THEN Value(d["ocr_text"])
             ELSE IF "result" \in keys /\ d["result"].t = "str" THEN Value(d["result"])
             ELSE IF "result" \in keys /\ d["result"].t = "obj" /\ d["result"].hasText
                  THEN Value(StrVal(d["result"].s))
             ELSE Value(StrVal(<<>>))

\* extract_text_from_response: the first of text, content, ocr_text, result
extract_text_from_response(response_data) ==
    IF response_data.json # "dict"
    THEN RaiseOther("AttributeError")
    ELSE LET d == response_data.d
             keys == DOMAIN d
         IN  IF "text" \in keys THEN Value(d["text"])
             ELSE IF "content" \in keys THEN Value(d["content"])
             ELSE IF "ocr_text" \in keys THEN Value(d["ocr_text"])
             ELSE IF "result" \in keys /\ d["result"].t = "str" THEN Value(d["result"])
             ELSE IF "result" \in keys /\ d["result"].t = "obj" /\ d["result"].hasText
                  THEN Value(StrVal(d["result"].s))
             ELSE RaiseParseError(MsgNoText(keys))

\* Python truthiness of a value taken from the response
ValueTruthy(v) ==
    CASE v.t = "str" -> v.s # <<>>
      [] v.t = "null" -> FALSE
      [] OTHER -> TRUE

\* variant: the text is stored as it came
StoredText_NoStrip(v) ==
    IF ~ValueTruthy(v) THEN Value(StrVal(<<>>))
    ELSE IF v.t # "str" THEN RaiseOther("AttributeError")
    ELSE Value(StrVal(v.s))

\* parse, lines 266-270: "" for an empty or blank text, else text.strip();
\* a truthy value that is no string has no strip()
StoredText(v) ==
    IF ~ValueTruthy(v) THEN Value(StrVal(<<>>))
    ELSE IF v.t # "str" THEN RaiseOther("AttributeError")
    ELSE Value(StrVal(Strip(v.s)))

\* variants of the retry conditions: attempt != retry_count; any HTTP error
\* retried; attempt <= retry_count
TimeoutRetries_NotEqual(a, retry_count) == a # retry_count
HttpErrorRetries_AnyStatus(a, retry_count, status) == a < retry_count
RequestExceptionRetries_Inclusive(a, retry_count) == a <= retry_count

\* the retry conditions of the except clauses of make_api_request
TimeoutRetries(a, retry_count) == a < retry_count
HttpErrorRetries(a, retry_count, status) == a < retry_count /\ status >= 500
RequestExceptionRetries(a, retry_count) == a < retry_count

WillRetry(o, a, retry_count) ==
    CASE o.kind = "timeout" -> TimeoutRetries(a, retry_count)
      [] o.kind = "http_error" -> HttpErrorRetries(a, retry_count, o.status)
      [] o.kind = "conn_error" -> RequestExceptionRetries(a, retry_count)
      [] OTHER -> FALSE

\* variant: a fixed wait of 2 seconds
WaitTime_Fixed(a) == 2

\* wait_time = attempt * 2
WaitTime(a) == a * 2

\* the ParseError a failed outcome ends in when it is not retried
TerminalMessage(o, a) ==
    CASE o.kind = "timeout" -> MsgTimeout(a)
      [] o.kind = "http_error" -> MsgHttpError(o.status)
      [] OTHER -> MsgRequestFailed(a)

----------------------------------------------------------------------------
(* RestOcrDocumentParser.construct_request_headers *)

\* settings.auth_method values; str.lower() on them
AuthMethods == {"bearer", "Bearer", "api_key", "basic", "digest", ""}
LowerMethod(m) == IF m = "Bearer" THEN "bearer" ELSE m

AuthTokens == {None, "", "tok"}
RestApiKeys == {None, "", "secret", "k"}

\* base64.b64encode(credentials).decode("utf-8") of the credentials that occur
B64(credentials) ==
    CASE credentials = "secret:" -> "c2VjcmV0Og=="
      [] credentials = "k:" -> "azo="

\* what an operator may configure as custom header for each name
CustomValue(name) ==
    CASE name = "Content-Type" -> "text/xml"
      [] name = "Authorization" -> "Custom abc"
      [] name = "X-API-Key" -> "override"
      [] OTHER -> "1"

\* settings.custom_headers: a mapping; the empty mapping stands for {} and
\* for None, which are both falsy
CustomHeaderMaps ==
    { [n \in names |-> CustomValue(n)] :
        names \in SUBSET {"Content-Type", "Authorization", "X-API-Key", "X-Trace"} }

HeaderSettings ==
    [auth_method : AuthMethods, auth_token : AuthTokens, api_key : RestApiKeys,
     custom_headers : CustomHeaderMaps]

\* dict.update: the entries of b replace those of a
Update(a, b) == [k \in DOMAIN a \cup DOMAIN b |-> IF k \in DOMAIN b THEN b[k] ELSE a[k]]

\* a one-entry mapping
Entry(name, value) == [k \in {name} |-> value]

\* variant: the API key header is added whenever a key is configured
construct_request_headers_key_always(config) ==
    LET base == Entry("Content-Type", "application/json")
        auth_method == LowerMethod(config.auth_method)
        withBearer ==
            IF auth_method = "bearer" /\ Truthy(config.auth_token)
            THEN Update(base, Entry("Authorization", "Bearer " \o config.auth_token))
            ELSE IF auth_method = "basic" /\ Truthy(config.api_key)
            THEN Update(base, Entry("Authorization", "Basic " \o B64(config.api_key \o ":")))
            ELSE base
        withAuth ==
            IF Truthy(config.api_key)
            THEN Update(withBearer, Entry("X-API-Key", config.api_key))
            ELSE withBearer
    IN  IF DOMAIN config.custom_headers # {}
        THEN Update(withAuth, config.custom_headers)
        ELSE withAuth

\* variant: the custom headers are merged first, the generated ones last
construct_request_headers_custom_first(config) ==
    LET base == Update(config.custom_headers, Entry("Content-Type", "application/json"))
        auth_method == LowerMethod(config.auth_method)
    IN  IF auth_method = "bearer" /\ Truthy(config.auth_token)
        THEN Update(base, Entry("Authorization", "Bearer " \o config.auth_token))
        ELSE IF auth_method = "api_key" /\ Truthy(config.api_key)
        THEN Update(base, Entry("X-API-Key", config.api_key))
        ELSE IF auth_method = "basic" /\ Truthy(config.api_key)
        THEN Update(base, Entry("Authorization", "Basic " \o B64(config.api_key \o ":")))
        ELSE base

\* variant: bearer falls back to the API key when no token is configured
construct_request_headers_bearer_fallback(config) ==
    LET base == Entry("Content-Type", "application/json")
        auth_method == LowerMethod(config.auth_method)
        withAuth ==
            IF auth_method = "bearer" /\ Truthy(config.auth_token)
            THEN Update(base, Entry("Authorization", "Bearer " \o config.auth_token))
            ELSE IF auth_method = "bearer" /\ Truthy(config.api_key)
            THEN Update(base, Entry("Authorization", "Bearer " \o config.api_key))
            ELSE IF auth_method = "api_key" /\ Truthy(config.api_key)
            THEN Update(base, Entry("X-API-Key", config.api_key))
            ELSE IF auth_method = "basic" /\ Truthy(config.api_key)
            THEN Update(base, Entry("Authorization", "Basic " \o B64(config.api_key \o ":")))
            ELSE base
    IN  IF DOMAIN config.custom_headers # {}
        THEN Update(withAuth, config.custom_headers)
        ELSE withAuth

\* construct_request_headers: Content-Type, one auth header chosen by the
\* method, then the custom headers
construct_request_headers(config) ==
    LET base == Entry("Content-Type", "application/json")
        auth_method == LowerMethod(config.auth_method)
        withAuth ==
            IF auth_method = "bearer" /\ Truthy(config.auth_token)
            THEN Update(base, Entry("Authorization", "Bearer " \o config.auth_token))
            ELSE IF auth_method = "api_key" /\ Truthy(config.api_key)
            THEN Update(base, Entry("X-API-Key", config.api_key))
            ELSE IF auth_method = "basic" /\ Truthy(config.api_key)
            THEN Update(base, Entry("Authorization", "Basic " \o B64(config.api_key \o ":")))
            ELSE base
    IN  IF DOMAIN config.custom_headers # {}
        THEN Update(withAuth, config.custom_headers)
        ELSE withAuth

----------------------------------------------------------------------------
(* RestOcrDocumentParser: the parse call *)

RestEndpoints == {None, "", "http://ocr.example/api"}

\* settings.CELERY_TASK_TIME_LIMIT, the host's ceiling for a task, in seconds
CELERY_TASK_TIME_LIMIT == 1800

\* rest_ocr_timeout: any positive integer, also one at or above the host's ceiling
Timeouts == {30, CELERY_TASK_TIME_LIMIT}

\* no timeout argument is given to the call
NoTimeout == -1
RetryCounts == (0 - MinRetryBelow) .. MaxRetry
MimeTypes == {"application/pdf", "image/png"}
Documents == [readable : BOOLEAN, mime_type : MimeTypes]

RestSettings == [api_endpoint : RestEndpoints, retry_count : RetryCounts, timeout : Timeouts]

\* what requests.post is called with
RestRequest(s, d) ==
    [op |-> "post", url |-> s.api_endpoint, timeout |-> s.timeout,
     headers |-> << >>, data |-> [mime_type |-> d.mime_type]]

\* parse ends: by returning, or by raising ParseError(m)
Finish(r) == pc' = "done" /\ result' = r

\* variant: an unexpected exception is swallowed and parse returns
Wrapped_Swallow(exc) == Returned

\* except Exception in parse: anything but a ParseError is wrapped
Wrapped(exc) == Raised(MsgUnexpected(exc))

\* make_api_request(document_path, mime_type, a) up to and including
\* requests.post being called
MakeApiRequest(a) ==
    IF ~Truthy(settings.api_endpoint)
    THEN /\ Finish(Raised(MsgNotConfigured))
         /\ UNCHANGED << attempt, posts, postLog, requestLog >>
    ELSE IF ~doc.readable
    THEN \* construct_request_payload: open() raises OSError
         /\ Finish(Wrapped("OSError"))
         /\ UNCHANGED << attempt, posts, postLog, requestLog >>
    ELSE /\ attempt' = a
         /\ posts' = posts + 1
         /\ postLog' = Append(postLog, a)
         /\ requestLog' = Append(requestLog, RestRequest(settings, doc))
         /\ pc' = "inflight"
         /\ UNCHANGED result

\* parse is called on a RestOcrDocumentParser
RestParse ==
    /\ parser = "rest"
    /\ pc = "idle"
    /\ MakeApiRequest(1)
    /\ UNCHANGED << cfgVars, pureVars, sleepLog, responses, lastOutcome, text,
                    archive_path, archiveFile, remoteVars >>

\* parse, after make_api_request has returned the body of a 2xx response
\* variant: parse clears self.text when the extraction fails
ParseResponse_ClearsOnFailure(body) ==
    LET extracted == extract_text_from_response(ResponseData(body))
        stored == IF extracted.how = "value" THEN StoredText(extracted.v) ELSE extracted
    IN  CASE stored.how = "value" ->
               /\ text' = stored.v
               /\ archive_path' = None
               /\ Finish(Returned)
          [] stored.how = "ParseError" ->
               /\ text' = StrVal(<<>>)
               /\ Finish(Raised(stored.msg))
               /\ UNCHANGED archive_path
          [] OTHER ->
               /\ text' = StrVal(<<>>)
               /\ Finish(Wrapped(stored.msg.exc))
               /\ UNCHANGED archive_path

ParseResponse(body) ==
    LET extracted == extract_text_from_response(ResponseData(body))
        stored == IF extracted.how = "value" THEN StoredText(extracted.v) ELSE extracted
    IN  CASE stored.how = "value" ->
               /\ text' = stored.v
               /\ archive_path' = None
               /\ Finish(Returned)
          [] stored.how = "ParseError" ->
               /\ Finish(Raised(stored.msg))
               /\ UNCHANGED << text, archive_path >>
          [] OTHER ->
               /\ Finish(Wrapped(stored.msg.exc))
               /\ UNCHANGED << text, archive_path >>

\* requests.post ends with outcome o
\* variant: the backoff sleep is taken on every failure, before the attempt
\* number is compared with retry_count
RestRespond_SleepFirst(o) ==
    /\ parser = "rest"
    /\ pc = "inflight"
    /\ lastOutcome' = o
    /\ responses' = Append(responses, OutcomeClass(o))
    /\ IF o.kind = "ok"
       THEN /\ ParseResponse(o.body)
            /\ UNCHANGED sleepLog
       ELSE IF WillRetry(o, attempt, settings.retry_count)
       THEN /\ sleepLog' = Append(sleepLog, WaitTime(attempt))
            /\ pc' = "sleeping"
            /\ UNCHANGED << result, text, archive_path >>
       ELSE /\ sleepLog' = Append(sleepLog, WaitTime(attempt))
            /\ Finish(Raised(TerminalMessage(o, attempt)))
            /\ UNCHANGED << text, archive_path >>
    /\ UNCHANGED << cfgVars, pureVars, requestLog, attempt, posts, postLog, remoteVars, archiveFile >>

RestRespond(o) ==
    /\ parser = "rest"
    /\ pc = "inflight"
    /\ lastOutcome' = o
    /\ responses' = Append(responses, OutcomeClass(o))
    /\ IF o.kind = "ok"
       THEN /\ ParseResponse(o.body)
            /\ UNCHANGED sleepLog
       ELSE IF WillRetry(o, attempt, settings.retry_count)
       THEN /\ sleepLog' = Append(sleepLog, WaitTime(attempt))
            /\ pc' = "sleeping"
            /\ UNCHANGED << result, text, archive_path >>
       ELSE /\ Finish(Raised(TerminalMessage(o, attempt)))
            /\ UNCHANGED << sleepLog, text, archive_path >>
    /\ UNCHANGED << cfgVars, pureVars, requestLog, attempt, posts, postLog, remoteVars, archiveFile >>

\* time.sleep returns: make_api_request calls itself with attempt + 1
RestRetry ==
    /\ parser = "rest"
    /\ pc = "sleeping"
    /\ MakeApiRequest(attempt + 1)
    /\ UNCHANGED << cfgVars, pureVars, sleepLog, responses, lastOutcome, text,
                    archive_path, archiveFile, remoteVars >>

----------------------------------------------------------------------------
(* RemoteDocumentParser *)

Engines == {None, "tesseract", "azureai", "ocrbridge-ocrmac"}
ApiKeys == {None, "", "secret"}
RemoteEndpoints == {None, "", "https://ocr.example", "https://ocr.example/",
                    "https://ocr.example/api//"}

\* variant: one trailing slash is removed
RStripSlash_Once(s) ==
    IF Len(s) > 0 /\ SubSeq(s, Len(s), Len(s)) = "/" THEN SubSeq(s, 1, Len(s) - 1) ELSE s

\* s.rstrip("/")
RECURSIVE RStripSlash(_)
RStripSlash(s) ==
    IF Len(s) > 0 /\ SubSeq(s, Len(s), Len(s)) = "/"
    THEN RStripSlash(SubSeq(s, 1, Len(s) - 1))
    ELSE s

RemoteSettings == [engine : Engines, api_key : ApiKeys, endpoint : RemoteEndpoints]

\* variant: the endpoint is not required
engine_is_valid_no_endpoint(config) ==
    /\ config.engine \in {"azureai", "ocrbridge-ocrmac"}
    /\ Truthy(config.api_key)

\* variant: the engine identifier is not looked at
engine_is_valid_any_engine(config) ==
    /\ Truthy(config.api_key)
    /\ Truthy(config.endpoint)

\* RemoteEngineConfig.engine_is_valid
engine_is_valid(config) ==
    /\ config.engine \in {"azureai", "ocrbridge-ocrmac"}
    /\ Truthy(config.api_key)
    /\ Truthy(config.endpoint)

\* "OCRBridge OCRMac parsing failed: {e}"
MsgBridgeFailed(exc) == Msg("bridge_failed", 0, 0, {}, ExcText(exc))

\* the httpx exception client.post raises for a failed transport
TransportException(o) == IF o.kind = "timeout" THEN "ReadTimeout" ELSE "ConnectError"
\* "OCRBridge OCRMac parsing failed: HTTP {status}[ - detail][ (error_code: ..)]"
MsgBridgeHttp(status) == Msg("bridge_http", status, 0, {}, "")
\* "OCRBridge OCRMac parsing failed: expected PDF response, got {content_type}"
MsgBridgeExpectedPdf(ctype) ==
    Msg("bridge_expected_pdf", 0, 0, {}, IF ctype = "" THEN "unknown content type" ELSE ctype)
\* "OCRBridge OCRMac parsing failed: unable to extract text from PDF response"
MsgBridgeNoText == Msg("bridge_no_text", 0, 0, {}, "")

\* content-type header values a bridge response can carry ("" = no header)
ContentTypes == {"", "application/pdf", "Application/PDF",
                 "application/pdf; charset=binary", "application/json",
                 "Text/HTML", "text/plain; x=application/pdf"}

\* variant: the header value is compared as it was received
Lower_Identity(ctype) == ctype

\* str.lower() on these values
Lower(ctype) ==
    CASE ctype = "Application/PDF" -> "application/pdf"
      [] ctype = "Text/HTML" -> "text/html"
      [] OTHER -> ctype

\* "application/pdf" in content_type (substring test)
ContainsPdf(ctype) ==
    ctype \in {"application/pdf", "application/pdf; charset=binary",
               "text/plain; x=application/pdf"}

\* bytes of a PDF rendition, and what a file holds if writing it stopped early
PdfContents == {"%PDF-1.7 A", "%PDF-1.7 B"}
PdfPrefixes == {"", "%PDF-"}

\* what client.post can do; for a 2xx response: its content-type, its bytes
\* and what extract_text recovers from them (null = nothing; an empty body
\* holds no text)
BridgeOutcomes ==
    { [kind |-> k, status |-> 0, ctype |-> "", content |-> "", extracted |-> NullVal] :
         k \in {"timeout", "conn_error"} }
    \cup { [kind |-> "http_error", status |-> c, ctype |-> "application/json",
            content |-> "", extracted |-> NullVal] : c \in HttpErrorStatuses }
    \cup { [kind |-> "ok", status |-> 200, ctype |-> ct, content |-> "",
            extracted |-> NullVal] : ct \in ContentTypes }
    \cup { [kind |-> "ok", status |-> 200, ctype |-> ct, content |-> b, extracted |-> x] :
            ct \in ContentTypes, b \in PdfContents,
            x \in {NullVal} \cup { StrVal(t) : t \in Texts } }

\* variant: the archive file is opened for appending, not overwritten
ArchiveContent_Append(o) ==
    IF archiveFile = None THEN o.content ELSE archiveFile \o o.content

\* variant: the archive is written from an empty buffer
ArchiveContent_Empty(o) == ""

\* self.archive_path.write_bytes(response.content)
ArchiveContent(o) == o.content

\* what client.post of the bridge is called with; the client was made with
\* timeout=settings.CELERY_TASK_TIME_LIMIT
BridgeRequest(s, d) ==
    [op |-> "post", url |-> RStripSlash(s.endpoint) \o "/v2/ocr/ocrmac/process",
     timeout |-> CELERY_TASK_TIME_LIMIT,
     headers |-> [h \in {"X-API-Key"} |-> s.api_key],
     data |-> [output_format |-> "pdf", mime_type |-> d.mime_type]]

\* a call of the provider client; none is given a timeout
ProviderRequest(op) ==
    [op |-> op, url |-> settings.endpoint, timeout |-> NoTimeout,
     headers |-> << >>, data |-> << >>]

\* parse is called on a RemoteDocumentParser
RemoteParse ==
    /\ parser = "remote"
    /\ pc = "idle"
    /\ IF ~engine_is_valid(settings)
       THEN /\ text' = StrVal(<<>>)
            /\ Finish(Returned)
            /\ UNCHANGED << posts, remoteVars, requestLog >>
       ELSE IF settings.engine = "azureai"
       THEN \* azure_ai_vision_parse: the client is created
            /\ clientsMade' = clientsMade + 1
            /\ clientsOpen' = clientsOpen + 1
            /\ pc' = "az_submit"
            /\ UNCHANGED << posts, calls, errorLogs, text, result, requestLog >>
       ELSE IF ~doc.readable
       THEN \* ocrbridge_ocrmac_parse: file.open raises, caught and re-raised
            /\ errorLogs' = errorLogs + 1
            /\ Finish(Raised(MsgBridgeFailed("OSError")))
            /\ UNCHANGED << posts, clientsMade, clientsOpen, calls, text, requestLog >>
       ELSE \* ocrbridge_ocrmac_parse: the client is created and posts
            /\ clientsMade' = clientsMade + 1
            /\ clientsOpen' = clientsOpen + 1
            /\ posts' = posts + 1
            /\ calls' = Append(calls, "post")
            /\ requestLog' = Append(requestLog, BridgeRequest(settings, doc))
            /\ pc' = "br_inflight"
            /\ UNCHANGED << errorLogs, text, result >>
    /\ UNCHANGED << cfgVars, pureVars, restVars, archive_path, archiveFile >>

\* variants: the error is re-raised; the client is left open
AzureFail_Raises ==
    /\ errorLogs' = errorLogs + 1
    /\ clientsOpen' = clientsOpen - 1
    /\ UNCHANGED text
    /\ Finish(Raised(Msg("azure_failed", 0, 0, {}, "")))

AzureFail_NoClose ==
    /\ errorLogs' = errorLogs + 1
    /\ UNCHANGED clientsOpen
    /\ text' = NullVal
    /\ Finish(Returned)

\* variant: the text already read is returned although a later step failed
AzureFail_KeepsText ==
    /\ errorLogs' = errorLogs + 1
    /\ clientsOpen' = clientsOpen - 1
    /\ text' = (IF lastOutcome.kind = "ok" THEN lastOutcome.extracted ELSE NullVal)
    /\ Finish(Returned)

\* azure_ai_vision_parse: except Exception logs, finally closes, None is returned
AzureFail ==
    /\ errorLogs' = errorLogs + 1
    /\ clientsOpen' = clientsOpen - 1
    /\ text' = NullVal
    /\ Finish(Returned)

\* the document is read and client.begin_analyze_document is called
AzureSubmit(ok) ==
    /\ parser = "remote"
    /\ pc = "az_submit"
    /\ IF ~doc.readable
       THEN AzureFail /\ UNCHANGED << calls, responses, requestLog >>
       ELSE /\ calls' = Append(calls, "submit")
            /\ requestLog' = Append(requestLog, ProviderRequest("begin_analyze_document"))
            /\ IF ok
               THEN /\ pc' = "az_wait"
                    /\ responses' = Append(responses, "Ok")
                    /\ UNCHANGED << errorLogs, clientsOpen, text, result >>
               ELSE /\ AzureFail
                    /\ responses' = Append(responses, "Error")
    /\ UNCHANGED << cfgVars, pureVars, attempt, postLog, sleepLog, lastOutcome, posts,
                    archive_path, archiveFile, clientsMade >>

\* poller.wait()
AzureWait(ok) ==
    /\ parser = "remote"
    /\ pc = "az_wait"
    /\ calls' = Append(calls, "wait")
    /\ requestLog' = Append(requestLog, ProviderRequest("poller.wait"))
    /\ IF ok
       THEN /\ pc' = "az_result"
            /\ responses' = Append(responses, "Ok")
            /\ UNCHANGED << errorLogs, clientsOpen, text, result >>
       ELSE /\ AzureFail
            /\ responses' = Append(responses, "Error")
    /\ UNCHANGED << cfgVars, pureVars, attempt, postLog, sleepLog, lastOutcome, posts,
                    archive_path, archiveFile, clientsMade >>

\* poller.details / poller.result(); then archive_path is set and opened for writing
AzureResult(ok, content) ==
    /\ parser = "remote"
    /\ pc = "az_result"
    /\ calls' = Append(calls, "result")
    /\ IF ok
       THEN /\ lastOutcome' = [kind |-> "ok", status |-> 200, ctype |-> "",
                               content |-> "", extracted |-> StrVal(content)]
            /\ responses' = Append(responses, "Ok")
            /\ archive_path' = "archive.pdf"
            /\ archiveFile' = ""
            /\ pc' = "az_pdf"
            /\ UNCHANGED << errorLogs, clientsOpen, text, result >>
       ELSE /\ AzureFail
            /\ responses' = Append(responses, "Error")
            /\ UNCHANGED << lastOutcome, archive_path, archiveFile >>
    /\ UNCHANGED << cfgVars, pureVars, requestLog, attempt, postLog, sleepLog, posts, clientsMade >>

\* client.get_analyze_result_pdf, written chunk by chunk (bytes: what the
\* file holds afterwards); result.content is returned
AzurePdf(ok, bytes) ==
    /\ parser = "remote"
    /\ pc = "az_pdf"
    /\ bytes \in (IF ok THEN PdfContents ELSE PdfPrefixes)
    /\ calls' = Append(calls, "get_pdf")
    /\ requestLog' = Append(requestLog, ProviderRequest("get_analyze_result_pdf"))
    /\ archiveFile' = bytes
    /\ IF ok
       THEN /\ text' = lastOutcome.extracted
            /\ responses' = Append(responses, "Ok")
            /\ clientsOpen' = clientsOpen - 1
            /\ Finish(Returned)
            /\ UNCHANGED errorLogs
       ELSE /\ AzureFail
            /\ responses' = Append(responses, "Error")
    /\ UNCHANGED << cfgVars, pureVars, attempt, postLog, sleepLog, lastOutcome, posts,
                    archive_path, clientsMade >>

\* client.post of the bridge ends with outcome o; the with block closes the client
BridgeRespond(o) ==
    /\ parser = "remote"
    /\ pc = "br_inflight"
    /\ lastOutcome' = o
    /\ responses' = Append(responses, OutcomeClass(o))
    /\ clientsOpen' = clientsOpen - 1
    /\ CASE o.kind \in {"timeout", "conn_error"} ->
              /\ errorLogs' = errorLogs + 1
              /\ Finish(Raised(MsgBridgeFailed(TransportException(o))))
              /\ UNCHANGED << text, archive_path, archiveFile >>
         [] o.kind = "http_error" ->
              /\ errorLogs' = errorLogs + 1
              /\ Finish(Raised(MsgBridgeHttp(o.status)))
              /\ UNCHANGED << text, archive_path, archiveFile >>
         [] o.kind = "ok" /\ ~ContainsPdf(Lower(o.ctype)) ->
              /\ errorLogs' = errorLogs + 1
              /\ Finish(Raised(MsgBridgeExpectedPdf(Lower(o.ctype))))
              /\ UNCHANGED << text, archive_path, archiveFile >>
         [] o.kind = "ok" /\ ContainsPdf(Lower(o.ctype)) /\ o.extracted = NullVal ->
              /\ archive_path' = "archive.pdf"
              /\ archiveFile' = ArchiveContent(o)
              /\ errorLogs' = errorLogs + 1
              /\ Finish(Raised(MsgBridgeNoText))
              /\ UNCHANGED text
         [] OTHER ->
              /\ archive_path' = "archive.pdf"
              /\ archiveFile' = ArchiveContent(o)
              /\ text' = o.extracted
              /\ Finish(Returned)
              /\ UNCHANGED errorLogs
    /\ UNCHANGED << cfgVars, pureVars, requestLog, attempt, postLog, sleepLog, posts,
                    clientsMade, calls >>

----------------------------------------------------------------------------
(* The specification *)

\* no pure method is being called
NoCall == [fn |-> "none"]
NoRet == [how |-> "none"]

Init ==
    /\ parser \in {"rest", "remote"}
    /\ settings \in (IF parser = "rest" THEN RestSettings ELSE RemoteSettings)
    /\ doc \in Documents
    /\ pc = "idle"
    /\ attempt = 0
    /\ posts = 0
    /\ postLog = <<>>
    /\ sleepLog = <<>>
    /\ responses = <<>>
    /\ lastOutcome = NoOutcome
    /\ text = NullVal
    /\ archive_path = None
    /\ result = NoResult
    /\ clientsMade = 0
    /\ clientsOpen = 0
    /\ calls = <<>>
    /\ errorLogs = 0
    /\ archiveFile = None
    /\ requestLog = <<>>
    /\ call = NoCall
    /\ ret = NoRet
    /\ transport = <<>>

Next ==
    \/ RestParse
    \/ \E o \in RestOutcomes : RestRespond(o)
    \/ RestRetry
    \/ RemoteParse
    \/ \E ok \in BOOLEAN : AzureSubmit(ok)
    \/ \E ok \in BOOLEAN : AzureWait(ok)
    \/ \E ok \in BOOLEAN, content \in Texts : AzureResult(ok, content)
    \/ \E ok \in BOOLEAN, bytes \in PdfContents \cup PdfPrefixes : AzurePdf(ok, bytes)
    \/ \E o \in BridgeOutcomes : BridgeRespond(o)

Spec == Init /\ [][Next]_vars

\* every step of a parse call ends: requests.post and the clients return or
\* raise (each is given a timeout or is a bounded provider call), time.sleep
\* returns, and the code between them is straight-line
FairSpec == Spec /\ WF_vars(Next)

----------------------------------------------------------------------------
(* Calls of the pure methods, each on an instance on which parse is not running *)

\* the seven entries of supported_mime_types
RemoteMimeTypes ==
    [m \in {"application/pdf", "image/png", "image/jpeg", "image/tiff",
            "image/bmp", "image/gif", "image/webp"} |->
        CASE m = "application/pdf" -> ".pdf"
          [] m = "image/png" -> ".png"
          [] m = "image/jpeg" -> ".jpg"
          [] m = "image/tiff" -> ".tiff"
          [] m = "image/bmp" -> ".bmp"
          [] m = "image/gif" -> ".gif"
          [] OTHER -> ".webp"]

NoMimeTypes == [m \in {} |-> ""]

\* RemoteDocumentParser.supported_mime_types
supported_mime_types(config) ==
    IF engine_is_valid(config) THEN RemoteMimeTypes ELSE NoMimeTypes

\* a dict handed to extract_text_from_response
ResponseObjects == { [json |-> "dict", d |-> d, raw |-> <<>>] : d \in JsonDicts }

\* Python's `sub in s` on strings
Contains(s, sub) ==
    \E i \in 1..(Len(s) - Len(sub) + 1) : SubSeq(s, i, i + Len(sub) - 1) = sub

\* the string c * n
RECURSIVE Repeat(_, _)
Repeat(c, n) ==
    IF n = 0 THEN ""
    ELSE IF n % 2 = 0 THEN LET h == Repeat(c, n \div 2) IN h \o h
    ELSE c \o Repeat(c, n - 1)

\* e.response.text[:200]
MaxErrorText == 200

\* s[:n]
Prefix(s, n) == SubSeq(s, 1, IF Len(s) < n THEN Len(s) ELSE n)

\* bodies of an HTTP error response: empty, short, exactly MaxErrorText
\* characters, one more, and half as many again
ErrorTexts ==
    { "", "bad request", Repeat("x", MaxErrorText), Repeat("y", MaxErrorText + 1),
      Repeat("z", MaxErrorText + MaxErrorText \div 2) }

\* the message make_api_request builds for an HTTPError
rest_http_error_msg(status, body) ==
    "REST OCR API returned HTTP error: " \o ToString(status)
        \o (IF body # "" THEN " - " \o Prefix(body, MaxErrorText) ELSE "")

\* JSON body of a bridge error response: not JSON, a list, or an object whose
\* detail / error_code are absent (None), empty or set
BridgeErrorPayloads ==
    { [json |-> j, detail |-> None, error_code |-> None] : j \in {"notjson", "list"} }
    \cup { [json |-> "dict", detail |-> d, error_code |-> c] :
             d \in {None} \cup (ErrorTexts \ {Repeat("x", MaxErrorText)}),
             c \in {None, "", "unsupported_format", Repeat("c", MaxErrorText + 1)} }

\* the message ocrbridge_ocrmac_parse builds for an HTTPStatusError
bridge_http_error_msg(status, payload) ==
    LET detail == IF payload.json = "dict" THEN payload.detail ELSE None
        error_code == IF payload.json = "dict" THEN payload.error_code ELSE None
    IN  "OCRBridge OCRMac parsing failed: HTTP " \o ToString(status)
            \o (IF Truthy(detail) THEN " - " \o detail ELSE "")
            \o (IF Truthy(error_code) THEN " (error_code: " \o error_code \o ")" ELSE "")

PureInit ==
    /\ \/ /\ parser = "rest"
          /\ settings \in HeaderSettings
          /\ call = [fn |-> "construct_request_headers", arg |-> NoBody]
       \/ /\ parser = "rest"
          /\ settings \in RestSettings
          /\ settings.api_endpoint = None /\ settings.retry_count = 0
          /\ call \in { [fn |-> "extract_text_from_response", arg |-> rd] :
                          rd \in ResponseObjects }
       \/ /\ parser = "remote"
          /\ settings \in RemoteSettings
          /\ call \in { [fn |-> f, arg |-> NoBody] :
                          f \in {"supported_mime_types", "engine_is_valid"} }
       \/ /\ parser = "rest"
          /\ settings \in RestSettings
          /\ settings.api_endpoint = "http://ocr.example/api" /\ settings.retry_count = 1
          /\ call \in { [fn |-> "http_error_message", status |-> c, arg |-> b] :
                          c \in HttpErrorStatuses, b \in ErrorTexts }
       \/ /\ parser = "remote"
          /\ settings \in RemoteSettings
          /\ settings.engine = "ocrbridge-ocrmac" /\ engine_is_valid(settings)
          /\ call \in { [fn |-> "http_error_message", status |-> c, arg |-> p] :
                          c \in HttpErrorStatuses, p \in BridgeErrorPayloads }
    /\ doc \in Documents
    /\ doc.readable /\ doc.mime_type = "application/pdf"
    /\ pc = "idle"
    /\ attempt = 0
    /\ posts = 0
    /\ postLog = <<>>
    /\ sleepLog = <<>>
    /\ responses = <<>>
    /\ lastOutcome = NoOutcome
    /\ text = NullVal
    /\ archive_path = None
    /\ result = NoResult
    /\ clientsMade = 0
    /\ clientsOpen = 0
    /\ calls = <<>>
    /\ errorLogs = 0
    /\ archiveFile = None
    /\ requestLog = <<>>
    /\ ret = NoRet
    /\ transport = <<>>

\* everything a pure method must leave alone
parseVars == << parser, settings, doc, attempt, posts, postLog, sleepLog, responses,
                lastOutcome, text, archive_path, result, clientsMade, clientsOpen,
                calls, errorLogs, archiveFile, call, requestLog, transport >>

CallConstructRequestHeaders ==
    /\ pc = "idle"
    /\ call.fn = "construct_request_headers"
    /\ ret' = Value(construct_request_headers(settings))
    /\ pc' = "returned"
    /\ UNCHANGED parseVars

CallExtractTextFromResponse ==
    /\ pc = "idle"
    /\ call.fn = "extract_text_from_response"
    /\ ret' = extract_text_from_response(call.arg)
    /\ pc' = "returned"
    /\ UNCHANGED parseVars

CallSupportedMimeTypes ==
    /\ pc = "idle"
    /\ call.fn = "supported_mime_types"
    /\ ret' = Value(supported_mime_types(settings))
    /\ pc' = "returned"
    /\ UNCHANGED parseVars

\* self.settings.engine_is_valid() is called on its own
CallEngineIsValid ==
    /\ pc = "idle"
    /\ call.fn = "engine_is_valid"
    /\ ret' = Value(engine_is_valid(settings))
    /\ pc' = "returned"
    /\ UNCHANGED parseVars

\* make_api_request, except HTTPError: error_msg is built
RestHttpErrorMessage ==
    /\ pc = "idle"
    /\ parser = "rest"
    /\ call.fn = "http_error_message"
    /\ ret' = Value(rest_http_error_msg(call.status, call.arg))
    /\ pc' = "returned"
    /\ UNCHANGED parseVars

\* ocrbridge_ocrmac_parse, except HTTPStatusError: message is built
BridgeHttpErrorMessage ==
    /\ pc = "idle"
    /\ parser = "remote"
    /\ call.fn = "http_error_message"
    /\ ret' = Value(bridge_http_error_msg(call.status, call.arg))
    /\ pc' = "returned"
    /\ UNCHANGED parseVars

PureNext ==
    \/ CallConstructRequestHeaders
    \/ CallExtractTextFromResponse
    \/ CallSupportedMimeTypes
    \/ CallEngineIsValid
    \/ RestHttpErrorMessage
    \/ BridgeHttpErrorMessage

PureSpec == PureInit /\ [][PureNext]_vars

----------------------------------------------------------------------------
(* Properties *)

Done == pc = "done"

Max(a, b) == IF a >= b THEN a ELSE b

RECURSIVE Sum(_)
Sum(s) == IF s = <<>> THEN 0 ELSE Head(s) + Sum(Tail(s))

\* a generic REST parse whose endpoint is set and whose document can be read
RestRun ==
    /\ parser = "rest"
    /\ settings.api_endpoint \notin {None, ""}
    /\ doc.readable

\* every transport outcome received so far was of a retryable class
AllRetryable == \A i \in 1..Len(responses) : responses[i] \in RetryableClasses

\* all outcomes but the last were of a retryable class
RetryableBeforeLast == \A i \in 1..(Len(responses) - 1) : responses[i] \in RetryableClasses

\* C1: with N >= 1, a run in which every attempt failed with a retryable kind
\* has invoked the transport exactly N times and fails with a message that
\* contains "All N attempts failed".
C1_ExhaustedReportsAllAttempts ==
    (RestRun /\ Done /\ settings.retry_count >= 1 /\ responses # <<>> /\ AllRetryable)
        => /\ posts = settings.retry_count
           /\ result.how = "raised"
           /\ result.msg.attempts = settings.retry_count

\* C2: an HTTP 4xx response ends the call at once with a ParseError carrying
\* the status: nothing is slept or sent after it; a 4xx on the first attempt
\* leaves exactly one transport invocation and no sleep, whatever N is.
C2_ClientErrorIsTerminal ==
    (parser = "rest" /\ lastOutcome.kind = "http_error"
        /\ lastOutcome.status >= 400 /\ lastOutcome.status <= 499)
        => /\ Done
           /\ result = Raised(MsgHttpError(lastOutcome.status))
           /\ posts = Len(responses)
           /\ Len(sleepLog) = posts - 1
           /\ (Len(responses) = 1 => posts = 1 /\ sleepLog = <<>>)

C2_Witness ==
    /\ parser = "rest" /\ Done
    /\ settings.retry_count = MaxRetry
    /\ responses = << "ClientError" >>
    /\ posts = 1

\* C3: if the first k attempts fail with retryable kinds and attempt k+1 gets
\* a 2xx response carrying a text, parse returns, the transport was invoked
\* exactly k+1 times, and the text is the one of that response (a string
\* under "text" is stored without its surrounding whitespace).
C3_RetryThenSuccess ==
    (parser = "rest" /\ Done /\ lastOutcome.kind = "ok" /\ RetryableBeforeLast
        /\ lastOutcome.body.json = "dict"
        /\ "text" \in DOMAIN lastOutcome.body.d
        /\ lastOutcome.body.d["text"].t = "str")
        => /\ result = Returned
           /\ posts = Len(responses)
           /\ postLog = [i \in 1..Len(responses) |-> i]
           /\ Len(sleepLog) = Len(responses) - 1
           /\ Len(responses) - 1 < Max(1, settings.retry_count)
           /\ text = StrVal(Strip(lastOutcome.body.d["text"].s))

C3_Witness ==
    /\ parser = "rest" /\ Done
    /\ responses = << "ServerError", "Ok" >>
    /\ posts = 2
    /\ result = Returned
    /\ text = StrVal(<<"X">>)

\* C4: an invalid or unconfigured optional backend (unknown or missing
\* engine, empty API key, empty endpoint) makes parse return with text ""
\* and without any network activity: no client, no POST, no provider call.
C4_InvalidOptionalBackend ==
    (parser = "remote" /\ pc # "idle"
        /\ (\/ settings.engine \notin {"azureai", "ocrbridge-ocrmac"}
            \/ settings.api_key \in {None, ""}
            \/ settings.endpoint \in {None, ""}))
        => /\ Done
           /\ result = Returned
           /\ text = StrVal(<<>>)
           /\ posts = 0 /\ clientsMade = 0 /\ calls = <<>>

C4_Witness ==
    /\ parser = "remote" /\ Done
    /\ settings.engine = "ocrbridge-ocrmac"
    /\ settings.api_key = "secret"
    /\ settings.endpoint = ""
    /\ text = StrVal(<<>>)

\* C5: with an empty endpoint the generic REST parse fails with the
\* "not configured" ParseError and the transport is never invoked, whatever
\* the retry count and the document are.
C5_MissingEndpoint ==
    (parser = "rest" /\ pc # "idle" /\ settings.api_endpoint \in {None, ""})
        => /\ Done
           /\ result = Raised(MsgNotConfigured)
           /\ posts = 0 /\ postLog = <<>> /\ sleepLog = <<>>

C5_Witness ==
    /\ parser = "rest" /\ Done
    /\ settings.api_endpoint = ""
    /\ settings.retry_count = MaxRetry
    /\ ~doc.readable
    /\ result = Raised(MsgNotConfigured)

C7_AttemptWithinRetryCount ==
    (parser = "rest" /\ settings.retry_count >= 0)
        => \A i \in 1..Len(postLog) :
              postLog[i] >= 1 /\ postLog[i] <= settings.retry_count

\* C7 amended: the attempt number of every transport invocation is at least
\* 1 and at most max(1, N): the first attempt is made even when N is 0.
C7_AttemptWithinMaxOneRetryCount ==
    parser = "rest"
        => /\ \A i \in 1..Len(postLog) :
                 postLog[i] >= 1 /\ postLog[i] <= Max(1, settings.retry_count)
           /\ (pc \in {"inflight", "sleeping"}
                 => attempt >= 1 /\ attempt <= Max(1, settings.retry_count))

C7_Witness ==
    /\ parser = "rest"
    /\ settings.retry_count >= 2
    /\ pc = "inflight"
    /\ attempt = settings.retry_count

C9_FinalTimeoutReportsAttempts ==
    (parser = "rest" /\ Done /\ lastOutcome.kind = "timeout")
        => /\ result.how = "raised"
           /\ result.msg.kind = "timed_out"
           /\ result.msg.attempts = posts
           /\ posts = Len(responses)
           /\ posts = Max(1, settings.retry_count)

C9_Witness ==
    /\ parser = "rest" /\ Done
    /\ lastOutcome.kind = "timeout"
    /\ Len(responses) = 3
    /\ result = Raised(MsgTimeout(3))

\* the response object carries none of the keys text, content, ocr_text, result
NoRecognisedKey(body) ==
    /\ body.json = "dict"
    /\ DOMAIN body.d \cap {"text", "content", "ocr_text", "result"} = {}

\* C10: a 2xx response whose object has none of the recognised text keys is
\* terminal: a ParseError listing its keys is raised, with no sleep and no
\* transport invocation after it; as the first response it leaves exactly
\* one invocation and no sleep, whatever N is.
C10_ShapeErrorIsTerminal ==
    (parser = "rest" /\ lastOutcome.kind = "ok" /\ NoRecognisedKey(lastOutcome.body))
        => /\ Done
           /\ result = Raised(MsgNoText(DOMAIN lastOutcome.body.d))
           /\ posts = Len(responses)
           /\ Len(sleepLog) = posts - 1
           /\ (Len(responses) = 1 => posts = 1 /\ sleepLog = <<>>)

C10_Witness ==
    /\ parser = "rest" /\ Done
    /\ settings.retry_count = MaxRetry
    /\ responses = << "Ok" >>
    /\ DOMAIN lastOutcome.body.d = {"metadata"}
    /\ result.how = "raised"
    /\ posts = 1

\* C11: the attempts of one generic REST parse are strictly sequential: they
\* are numbered 1, 2, ..., k without gap or repetition, at most one transport
\* invocation is in flight at any time, and attempt n > 1 is started only
\* after attempt n-1 has ended with an outcome of a retryable class.
C11_AttemptsSequential ==
    parser = "rest"
        => /\ postLog = [i \in 1..Len(postLog) |-> i]
           /\ posts = Len(postLog)
           /\ posts - Len(responses) \in {0, 1}
           /\ (posts - Len(responses) = 1 <=> pc = "inflight")
           /\ \A n \in 2..Len(postLog) :
                 /\ Len(responses) >= n - 1
                 /\ responses[n - 1] \in RetryableClasses

C11_Witness ==
    /\ parser = "rest"
    /\ pc = "inflight"
    /\ attempt = 3
    /\ responses = << "Timeout", "ServerError" >>

\* construct_request_headers has returned
HeadersReturned == call.fn = "construct_request_headers" /\ pc = "returned"

\* the auth headers among the headers h
AuthPart(h) == [n \in DOMAIN h \cap {"Authorization", "X-API-Key"} |-> h[n]]

\* C12: the auth header is chosen by the method alone: bearer with a token
\* gives only Authorization: Bearer <token>, api_key with a key only
\* X-API-Key: <key>, basic with a key only Authorization: Basic
\* base64(key ":"); without custom headers the result is Content-Type plus
\* that one header, and Authorization and X-API-Key never occur together,
\* even when both a token and a key are configured.
C12_AuthHeaderExclusive ==
    HeadersReturned =>
        LET h == ret.v
            token == settings.auth_token
            key == settings.api_key
            custom == settings.custom_headers
            expected ==
                CASE settings.auth_method = "bearer" /\ token = "tok" ->
                       ("Authorization" :> "Bearer tok")
                  [] settings.auth_method = "api_key" /\ key = "secret" ->
                       ("X-API-Key" :> "secret")
                  [] settings.auth_method = "api_key" /\ key = "k" ->
                       ("X-API-Key" :> "k")
                  [] settings.auth_method = "basic" /\ key = "secret" ->
                       ("Authorization" :> "Basic c2VjcmV0Og==")
                  [] settings.auth_method = "basic" /\ key = "k" ->
                       ("Authorization" :> "Basic azo=")
                  [] OTHER -> AuthPart(h)
        IN  /\ DOMAIN custom \cap {"Authorization", "X-API-Key"} = {}
                 => /\ AuthPart(h) = expected
                    /\ ~({"Authorization", "X-API-Key"} \subseteq DOMAIN h)
            /\ DOMAIN custom = {}
                 => h = ("Content-Type" :> "application/json") @@ expected

C12_Witness ==
    /\ HeadersReturned
    /\ settings.auth_method = "bearer"
    /\ settings.auth_token = "tok"
    /\ settings.api_key = "secret"
    /\ DOMAIN settings.custom_headers = {}
    /\ ret.v = ("Content-Type" :> "application/json") @@ ("Authorization" :> "Bearer tok")

\* C13: the custom headers are merged last: every configured custom header
\* is in the result with its configured value whatever the auth method is,
\* also when it has the name of a generated header (Content-Type,
\* Authorization, X-API-Key), whose value it replaces; nothing else is lost.
C13_CustomHeadersMergedLast ==
    HeadersReturned =>
        LET h == ret.v
            custom == settings.custom_headers
        IN  /\ \A n \in DOMAIN custom : n \in DOMAIN h /\ h[n] = custom[n]
            /\ "Content-Type" \in DOMAIN h
            /\ "Content-Type" \notin DOMAIN custom => h["Content-Type"] = "application/json"
            /\ DOMAIN h \subseteq DOMAIN custom \cup {"Content-Type", "Authorization", "X-API-Key"}

C13_Witness ==
    /\ HeadersReturned
    /\ settings.auth_method = "bearer"
    /\ settings.auth_token = "tok"
    /\ DOMAIN settings.custom_headers = {"Authorization", "Content-Type", "X-Trace"}
    /\ ret.v["Authorization"] = "Custom abc"
    /\ ret.v["Content-Type"] = "text/xml"
    /\ ret.v["X-Trace"] = "1"

\* extract_text_from_response has returned or raised
ExtractEnded == call.fn = "extract_text_from_response" /\ pc = "returned"

\* C14: extract_text_from_response returns the value under the first key
\* present among text, content, ocr_text, result, where a result counts only
\* if it is a string (used as it is) or an object with a text entry (that
\* entry is used); when nothing matches, a result of another shape included,
\* it raises a ParseError listing the top-level keys of the response.
C14_ExtractTextLookupOrder ==
    ExtractEnded =>
        LET d == call.arg.d
            keys == DOMAIN d
        IN  CASE "text" \in keys -> ret.how = "value" /\ ret.v = d["text"]
              [] "content" \in keys -> ret.how = "value" /\ ret.v = d["content"]
              [] "ocr_text" \in keys -> ret.how = "value" /\ ret.v = d["ocr_text"]
              [] "result" \in keys /\ d["result"] \in { StrVal(s) : s \in Texts } ->
                    ret.how = "value" /\ ret.v = d["result"]
              [] "result" \in keys /\ d["result"] = ObjVal(TRUE, <<"X">>) ->
                    ret.how = "value" /\ ret.v = StrVal(<<"X">>)
              [] OTHER ->
                    /\ ret.how = "ParseError"
                    /\ ret.msg.kind = "no_text"
                    /\ ret.msg.keys = keys

C14_Witness ==
    /\ ExtractEnded
    /\ DOMAIN call.arg.d = {"result", "metadata"}
    /\ call.arg.d["result"] = NumVal
    /\ ret.how = "ParseError"
    /\ ret.msg.keys = {"result", "metadata"}

\* a bridge parse that has ended after a 2xx response
BridgeEndedOk ==
    /\ parser = "remote" /\ settings.engine = "ocrbridge-ocrmac"
    /\ Done /\ lastOutcome.kind = "ok"

\* C15 as stated: after a 2xx response the bridge parse succeeds only if the
\* content-type is exactly application/pdf, and every other content-type
\* value ends in the "expected PDF response" ParseError naming it.
C15_OnlyExactPdfAccepted ==
    BridgeEndedOk =>
        /\ result = Returned => lastOutcome.ctype = "application/pdf"
        /\ lastOutcome.ctype # "application/pdf"
             => result.how = "raised" /\ result.msg.kind = "bridge_expected_pdf"

\* C15 amended: after a 2xx response the bridge parse succeeds only if the
\* lower-cased content-type contains application/pdf (other letter case and
\* parameters such as "; charset=binary" are accepted); every other value
\* ends in the "expected PDF response" ParseError naming the lower-cased
\* content-type, or "unknown content type" when the header is missing, and
\* no archive is written.
C15_PdfContentTypeRequired ==
    BridgeEndedOk =>
        LET ctype == lastOutcome.ctype
            pdfLike == ctype \in {"application/pdf", "Application/PDF",
                                  "application/pdf; charset=binary",
                                  "text/plain; x=application/pdf"}
            named == CASE ctype = "" -> "unknown content type"
                       [] ctype = "Text/HTML" -> "text/html"
                       [] OTHER -> ctype
        IN  /\ result = Returned => pdfLike
            /\ ~pdfLike => /\ result.how = "raised"
                           /\ result.msg.kind = "bridge_expected_pdf"
                           /\ result.msg.exc = named
                           /\ archive_path = None /\ archiveFile = None
            /\ pdfLike => /\ result.msg.kind # "bridge_expected_pdf"
                          /\ (lastOutcome.extracted # NullVal => result = Returned)

C15_Witness ==
    /\ BridgeEndedOk
    /\ lastOutcome.ctype = "Text/HTML"
    /\ result.how = "raised"
    /\ result.msg.exc = "text/html"

\* C16: a 2xx application/pdf bridge response from which extract_text
\* recovers a text makes parse return that text, with archive_path naming a
\* file that holds exactly the bytes of the response (not empty); when
\* extract_text recovers nothing, parse raises a ParseError instead.
C16_BridgePdfTextAndArchive ==
    (BridgeEndedOk /\ lastOutcome.ctype = "application/pdf")
        => /\ lastOutcome.extracted # NullVal
                => /\ result = Returned
                   /\ text = lastOutcome.extracted
                   /\ archive_path = "archive.pdf"
                   /\ archiveFile = lastOutcome.content
                   /\ archiveFile \notin {None, ""}
           /\ lastOutcome.extracted = NullVal
                => /\ result = Raised(MsgBridgeNoText)
                   /\ text = NullVal

C16_Witness ==
    /\ BridgeEndedOk
    /\ lastOutcome.ctype = "application/pdf"
    /\ result = Returned
    /\ text = StrVal(<<"X">>)
    /\ archiveFile = "%PDF-1.7 A"

\* a document-intelligence parse with a valid configuration
AzureRun ==
    /\ parser = "remote"
    /\ settings.engine = "azureai"
    /\ settings.api_key \notin {None, ""}
    /\ settings.endpoint \notin {None, ""}

\* a step of the document-intelligence flow has raised
AzureStepFailed == ~doc.readable \/ \E i \in 1..Len(responses) : responses[i] = "Error"

\* C17: when a step of the document-intelligence flow raises (submitting the
\* job, polling, reading the result, retrieving the PDF), parse returns
\* without raising, the error has been logged exactly once and the text is
\* None, also when the analysis text had been read before the PDF failed.
C17_AzureFailureYieldsNone ==
    (AzureRun /\ Done /\ AzureStepFailed)
        => /\ result = Returned
           /\ errorLogs = 1
           /\ text = NullVal

C17_Witness ==
    /\ AzureRun /\ Done
    /\ responses = << "Ok", "Ok", "Ok", "Error" >>
    /\ lastOutcome.extracted = StrVal(<<"X">>)
    /\ text = NullVal
    /\ errorLogs = 1

\* the backend the parser talks to is configured
Configured ==
    IF parser = "rest"
    THEN Truthy(settings.api_endpoint)
    ELSE engine_is_valid(settings)

\* the call ended with a response of the service from which text was taken
ServiceTextDelivered ==
    IF parser = "rest"
    THEN /\ lastOutcome.kind = "ok"
         /\ extract_text_from_response(ResponseData(lastOutcome.body)).how = "value"
    ELSE IF settings.engine = "azureai"
    THEN responses = << "Ok", "Ok", "Ok", "Ok" >>
    ELSE /\ lastOutcome.kind = "ok"
         /\ ContainsPdf(Lower(lastOutcome.ctype))
         /\ lastOutcome.extracted # NullVal

\* the messages the parsers put into a ParseError
DescriptiveKinds ==
    {"not_configured", "timed_out", "http_error", "request_failed", "no_text",
     "unexpected", "bridge_failed", "bridge_http", "bridge_expected_pdf",
     "bridge_no_text"}

RaisedWithMessage == result.how = "raised" /\ result.msg.kind \in DescriptiveKinds

\* C18 as stated: every failure of a configured backend ends parse with a
\* ParseError that carries a message, and parse returns normally without
\* service text only when the optional backend is invalid or unconfigured.
C18_EveryFailureRaised ==
    Done =>
        /\ (Configured /\ ~ServiceTextDelivered) => RaisedWithMessage
        /\ (result.how = "returned" /\ ~ServiceTextDelivered)
               => (parser = "remote" /\ ~engine_is_valid(settings))

\* C18, amended: every failure of the REST backend and of the bridge backend
\* ends parse with a ParseError that carries a message; a failure of the
\* document-intelligence backend is logged once and parse returns normally
\* with text None; parse returns normally without service text only for an
\* invalid optional backend or a failed document-intelligence call.
C18_FailuresRaisedExceptAzure ==
    Done =>
        /\ (Configured /\ ~ServiceTextDelivered /\ ~AzureRun) => RaisedWithMessage
        /\ (Configured /\ ~ServiceTextDelivered /\ AzureRun)
               => (result = Returned /\ text = NullVal /\ errorLogs = 1)
        /\ (result.how = "returned" /\ ~ServiceTextDelivered)
               => (parser = "remote" /\ (~engine_is_valid(settings) \/ AzureRun))

C18_Witness ==
    /\ parser = "rest" /\ Done
    /\ Configured
    /\ lastOutcome.kind = "ok"
    /\ result = Raised(MsgUnexpected("AttributeError"))

\* positions of a remote parse at which its transport client is in use
ClientInUse == pc \in {"az_submit", "az_wait", "az_result", "az_pdf", "br_inflight"}

\* C19: a remote parse call opens at most one transport client, the client is
\* open while the call uses it, and it has been closed exactly once when
\* parse has returned or raised, whatever the exit path.
C19_ClientClosedOnEveryExit ==
    parser = "remote" =>
        /\ clientsMade \in {0, 1}
        /\ clientsOpen \in {0, 1}
        /\ clientsOpen <= clientsMade
        /\ ClientInUse => (clientsMade = 1 /\ clientsOpen = 1)
        /\ Done => clientsOpen = 0

C19_Witness ==
    /\ parser = "remote" /\ Done
    /\ settings.engine = "ocrbridge-ocrmac"
    /\ clientsMade = 1
    /\ clientsOpen = 0
    /\ result.how = "raised"

\* supported_mime_types has been called and has returned
MimeTypesReturned == call.fn = "supported_mime_types" /\ pc = "returned"

\* a configuration with a supported engine, an API key and an endpoint
ValidEngineConfig ==
    /\ settings.engine \in {"azureai", "ocrbridge-ocrmac"}
    /\ settings.api_key \notin {None, ""}
    /\ settings.endpoint \notin {None, ""}

\* C20: supported_mime_types of the remote parser returns the mapping of the
\* seven MIME types to their extensions if and only if the engine
\* configuration is valid, and the empty mapping otherwise.
C20_MimeTypesIffValid ==
    MimeTypesReturned =>
        /\ ret.how = "value"
        /\ ValidEngineConfig =>
              /\ Cardinality(DOMAIN ret.v) = 7
              /\ ret.v = ("application/pdf" :> ".pdf" @@ "image/png" :> ".png"
                          @@ "image/jpeg" :> ".jpg" @@ "image/tiff" :> ".tiff"
                          @@ "image/bmp" :> ".bmp" @@ "image/gif" :> ".gif"
                          @@ "image/webp" :> ".webp")
        /\ ~ValidEngineConfig => DOMAIN ret.v = {}

C20_Witness ==
    /\ MimeTypesReturned
    /\ settings.engine = "azureai"
    /\ settings.api_key = "secret"
    /\ settings.endpoint \in {None, ""}
    /\ DOMAIN ret.v = {}

\* engine_is_valid has been called and has returned
EngineIsValidReturned == call.fn = "engine_is_valid" /\ pc = "returned"

\* C21: engine_is_valid returns True if and only if the engine is azureai or
\* ocrbridge-ocrmac and both the API key and the endpoint are non-empty, and
\* False otherwise; the call changes nothing of the configuration or the
\* parser.
C21_EngineIsValidIff ==
    /\ [](EngineIsValidReturned =>
            /\ ret.how = "value"
            /\ ret.v \in BOOLEAN
            /\ ret.v <=> ValidEngineConfig)
    /\ [][call.fn = "engine_is_valid" => UNCHANGED parseVars]_vars

C21_Witness ==
    /\ EngineIsValidReturned
    /\ settings.engine = "ocrbridge-ocrmac"
    /\ settings.api_key = "secret"
    /\ settings.endpoint = "https://ocr.example/"
    /\ ret.v = TRUE

----------------------------------------------------------------------------
(* parse called twice on one parser instance, against a scripted transport *)

\* outcomes a scripted requests.post gives
ScriptRestOutcomes ==
    { o \in RestOutcomes :
        \/ o.kind = "timeout"
        \/ o.kind = "http_error" /\ o.status \in {404, 503}
        \/ /\ o.kind = "ok"
           /\ o.body \in { [json |-> "dict", d |-> [k \in {"text"} |-> StrVal(<<" ", "X", " ">>)],
                            raw |-> <<>>],
                           [json |-> "dict", d |-> [k \in {"metadata"} |-> NumVal], raw |-> <<>>],
                           [json |-> "list", d |-> EmptyDict, raw |-> <<>>] } }

\* what a scripted provider gives to one step of the document-intelligence flow
AzureSteps ==
    { [ok |-> TRUE, content |-> <<"X">>, bytes |-> "%PDF-1.7 A"],
      [ok |-> TRUE, content |-> <<>>, bytes |-> "%PDF-1.7 B"],
      [ok |-> FALSE, content |-> <<"X">>, bytes |-> "%PDF-"] }

\* the scripts a parser with settings s can consume in one call
Scripts(p, s) ==
    IF p = "rest"
    THEN [1..Max(1, s.retry_count) -> ScriptRestOutcomes]
    ELSE IF ~engine_is_valid(s)
    THEN { <<>> }
    ELSE IF s.engine = "azureai"
    THEN [1..4 -> AzureSteps]
    ELSE [1..1 -> BridgeOutcomes]

\* the next outcome of the script
Scripted == transport[Len(responses) + 1]

FirstParse == [fn |-> "parse", n |-> 1]
SecondParse == [fn |-> "parse", n |-> 2]

\* what a parse call leaves to its caller
Outcome ==
    [how |-> "parse", result |-> result, text |-> text, archive_path |-> archive_path,
     archiveFile |-> archiveFile, posts |-> posts, calls |-> calls]

TwiceInit ==
    /\ parser \in {"rest", "remote"}
    /\ settings \in (IF parser = "rest" THEN RestSettings ELSE RemoteSettings)
    /\ doc \in Documents
    /\ transport \in Scripts(parser, settings)
    /\ pc = "idle"
    /\ attempt = 0
    /\ posts = 0
    /\ postLog = <<>>
    /\ sleepLog = <<>>
    /\ responses = <<>>
    /\ lastOutcome = NoOutcome
    /\ text = NullVal
    /\ archive_path = None
    /\ result = NoResult
    /\ clientsMade = 0
    /\ clientsOpen = 0
    /\ calls = <<>>
    /\ errorLogs = 0
    /\ archiveFile = None
    /\ requestLog = <<>>
    /\ call = FirstParse
    /\ ret = NoRet

\* the first parse has ended and parse is called again on the same instance:
\* self.text, self.archive_path and the files of self.tempdir are what the
\* first call left, everything local to a call starts anew
ParseAgain ==
    /\ pc = "done"
    /\ call = FirstParse
    /\ call' = SecondParse
    /\ ret' = Outcome
    /\ pc' = "idle"
    /\ attempt' = 0
    /\ posts' = 0
    /\ postLog' = <<>>
    /\ sleepLog' = <<>>
    /\ responses' = <<>>
    /\ lastOutcome' = NoOutcome
    /\ result' = NoResult
    /\ clientsMade' = 0
    /\ clientsOpen' = 0
    /\ calls' = <<>>
    /\ errorLogs' = 0
    /\ requestLog' = <<>>
    /\ UNCHANGED << cfgVars, text, archive_path, archiveFile >>

ScriptedRestRespond == Len(responses) < Len(transport) /\ RestRespond(Scripted)
ScriptedAzureSubmit == Len(responses) < Len(transport) /\ AzureSubmit(Scripted.ok)
ScriptedAzureWait == Len(responses) < Len(transport) /\ AzureWait(Scripted.ok)
ScriptedAzureResult ==
    Len(responses) < Len(transport) /\ AzureResult(Scripted.ok, Scripted.content)
ScriptedAzurePdf ==
    Len(responses) < Len(transport) /\ AzurePdf(Scripted.ok, Scripted.bytes)
ScriptedBridgeRespond == Len(responses) < Len(transport) /\ BridgeRespond(Scripted)

TwiceNext ==
    \/ RestParse
    \/ ScriptedRestRespond
    \/ RestRetry
    \/ RemoteParse
    \/ ScriptedAzureSubmit
    \/ ScriptedAzureWait
    \/ ScriptedAzureResult
    \/ ScriptedAzurePdf
    \/ ScriptedBridgeRespond
    \/ ParseAgain

TwiceSpec == TwiceInit /\ [][TwiceNext]_vars

\* the second of two parse calls has ended
SecondDone == call = SecondParse /\ Done

\* C22: two parse calls with the same document, MIME type and configuration,
\* each given the same sequence of transport outcomes, end the same way: both
\* return with the same text and the same archive, or both raise ParseError
\* with the same message; and both invoke the transport the same number of
\* times.
C22_ParseTwiceSameOutcome ==
    SecondDone =>
        /\ result = ret.result
        /\ posts = ret.posts
        /\ calls = ret.calls
        /\ result.how = "returned" =>
              /\ text = ret.text
              /\ archive_path = ret.archive_path
              /\ archiveFile = ret.archiveFile

C22_Witness ==
    /\ SecondDone
    /\ parser = "remote" /\ settings.engine = "ocrbridge-ocrmac"
    /\ result = Returned
    /\ ret.result = Returned
    /\ text = StrVal(<<"X">>)
    /\ archiveFile = "%PDF-1.7 A"
    /\ posts = 1

\* the message of an HTTP error has been built
HttpErrorMessageBuilt == call.fn = "http_error_message" /\ pc = "returned"

\* what the server sent that the message is to carry
ServerDetail ==
    IF parser = "rest" THEN call.arg
    ELSE IF call.arg.json = "dict" /\ Truthy(call.arg.detail) THEN call.arg.detail ELSE ""

ServerErrorCode ==
    IF parser = "remote" /\ call.arg.json = "dict" /\ Truthy(call.arg.error_code)
    THEN call.arg.error_code ELSE ""

\* C23: the message for an HTTP error response names the backend, holds the
\* status code and, when the server sent one, its detail (the response text
\* for REST, detail and error_code for the bridge), and the part of the
\* message that comes from the server is cut to a bounded length (no more
\* than MaxErrorText characters of a server-provided field) for both backends.
C23_HttpErrorMessageBounded ==
    HttpErrorMessageBuilt =>
        /\ Contains(ret.v, IF parser = "rest" THEN "REST OCR" ELSE "OCRBridge OCRMac")
        /\ Contains(ret.v, ToString(call.status))
        /\ Contains(ret.v, Prefix(ServerDetail, MaxErrorText))
        /\ Contains(ret.v, Prefix(ServerErrorCode, MaxErrorText))
        /\ Len(ServerDetail) > MaxErrorText
              => ~Contains(ret.v, Prefix(ServerDetail, MaxErrorText + 1))
        /\ Len(ServerErrorCode) > MaxErrorText
              => ~Contains(ret.v, Prefix(ServerErrorCode, MaxErrorText + 1))

\* the parts of C23 that do not concern truncation, and truncation for REST
C23_Aux_AllButBridgeTruncation ==
    HttpErrorMessageBuilt =>
        /\ Contains(ret.v, IF parser = "rest" THEN "REST OCR" ELSE "OCRBridge OCRMac")
        /\ Contains(ret.v, ToString(call.status))
        /\ Contains(ret.v, Prefix(ServerDetail, MaxErrorText))
        /\ Contains(ret.v, Prefix(ServerErrorCode, MaxErrorText))
        /\ (parser = "rest" /\ Len(ServerDetail) > MaxErrorText)
              => ~Contains(ret.v, Prefix(ServerDetail, MaxErrorText + 1))

\* a bridge parse with a valid configuration whose document can be read
BridgeRun ==
    /\ parser = "remote"
    /\ settings.engine = "ocrbridge-ocrmac"
    /\ settings.api_key \notin {None, ""}
    /\ settings.endpoint \notin {None, ""}
    /\ doc.readable

\* the URL the bridge is to be posted to, per configured endpoint
ExpectedBridgeUrl ==
    CASE settings.endpoint = "https://ocr.example/api//"
             -> "https://ocr.example/api/v2/ocr/ocrmac/process"
      [] OTHER -> "https://ocr.example/v2/ocr/ocrmac/process"

\* C24: a bridge parse with a valid configuration issues exactly one POST, to
\* the endpoint without its trailing slashes followed by
\* /v2/ocr/ocrmac/process, with the X-API-Key header and output_format=pdf,
\* and the POST is not repeated whatever its outcome.
C24_BridgePostsOnce ==
    BridgeRun =>
        /\ posts <= 1
        /\ pc # "idle" =>
              /\ posts = 1
              /\ calls = << "post" >>
              /\ Len(requestLog) = 1
              /\ requestLog[1].op = "post"
              /\ requestLog[1].url = ExpectedBridgeUrl
              /\ DOMAIN requestLog[1].headers = {"X-API-Key"}
              /\ requestLog[1].headers["X-API-Key"] = settings.api_key
              /\ requestLog[1].data.output_format = "pdf"
        /\ Done => Len(responses) = 1

C24_Witness ==
    /\ BridgeRun /\ Done
    /\ settings.endpoint = "https://ocr.example/api//"
    /\ lastOutcome.kind = "http_error" /\ lastOutcome.status = 503
    /\ posts = 1
    /\ requestLog[1].url = "https://ocr.example/api/v2/ocr/ocrmac/process"

\* the provider calls of one document-intelligence parse, in their order
AzureCallOrder == << "submit", "wait", "result", "get_pdf" >>

\* C25: the provider calls of a document-intelligence parse are, in this
\* order, submit (once), wait, result, get_pdf; parse holds a text only after
\* all four have been made and the archive PDF has been written completely,
\* and that text is the content of the analysis result.
C25_AzureCallOrder ==
    AzureRun =>
        /\ Len(calls) <= 4
        /\ calls = SubSeq(AzureCallOrder, 1, Len(calls))
        /\ ~Done => text = NullVal
        /\ (Done /\ text # NullVal) =>
              /\ calls = AzureCallOrder
              /\ responses = << "Ok", "Ok", "Ok", "Ok" >>
              /\ archive_path = "archive.pdf"
              /\ archiveFile \in PdfContents
              /\ text = lastOutcome.extracted
              /\ result = Returned

C25_Witness ==
    /\ AzureRun /\ Done
    /\ calls = << "submit", "wait", "result", "get_pdf" >>
    /\ text = StrVal(<<"X">>)
    /\ archiveFile = "%PDF-1.7 A"

\* seconds that have passed since parse was called, at least: every attempt
\* that timed out took settings.timeout, every sleep its wait time (a sleep
\* in progress counted whole)
TimeSpent ==
    Sum(sleepLog)
      + settings.timeout * Cardinality({ i \in 1..Len(responses) : responses[i] = "Timeout" })

\* C26: a backoff sleep of the retry loop never runs past the host's ceiling
\* for the task: when a sleep is under way, the time spent so far together
\* with the whole of that sleep is within CELERY_TASK_TIME_LIMIT (the sleep
\* was shortened or dropped if the remaining budget was smaller).
C26_SleepWithinTaskBudget ==
    (RestRun /\ pc = "sleeping") => TimeSpent <= CELERY_TASK_TIME_LIMIT

\* C27: every transport call of every backend is made with a per-attempt
\* timeout: the configured timeout where the configuration has one (REST),
\* and in every case a timeout that is given and is strictly smaller than the
\* host's task time limit.
C27_TransportTimeoutBelowTaskLimit ==
    \A i \in 1..Len(requestLog) :
        /\ parser = "rest" => requestLog[i].timeout = settings.timeout
        /\ requestLog[i].timeout # NoTimeout
        /\ requestLog[i].timeout < CELERY_TASK_TIME_LIMIT

\* class name of the exception other than ParseError that was raised inside
\* a generic REST or bridge parse ("" if there was none)
UnexpectedException ==
    IF parser = "rest"
    THEN IF ~Truthy(settings.api_endpoint) THEN ""
         ELSE IF ~doc.readable THEN "OSError"
         ELSE IF lastOutcome.kind = "ok"
         THEN LET extracted == extract_text_from_response(ResponseData(lastOutcome.body))
                  stored == IF extracted.how = "value" THEN StoredText(extracted.v)
                            ELSE extracted
              IN  IF stored.how = "Exception" THEN stored.msg.exc ELSE ""
         ELSE ""
    ELSE IF settings.engine = "ocrbridge-ocrmac" /\ engine_is_valid(settings)
    THEN IF ~doc.readable THEN "OSError"
         ELSE IF lastOutcome.kind \in {"timeout", "conn_error"}
         THEN TransportException(lastOutcome)
         ELSE ""
    ELSE ""

\* C28: in a generic REST or bridge parse, an exception that is not a
\* ParseError ends parse with a ParseError whose message holds the class name
\* of that exception and its message; a ParseError raised inside ends parse as
\* it is, without being wrapped.
C28_UnexpectedNamesTypeAndMessage ==
    (Done /\ (parser = "rest" \/ settings.engine = "ocrbridge-ocrmac")) =>
        /\ UnexpectedException # "" =>
              /\ result.how = "raised"
              /\ Contains(result.msg.exc, UnexpectedException)
              /\ Contains(result.msg.exc, ExcText(UnexpectedException))
        /\ (UnexpectedException = "" /\ result.how = "raised")
              => result.msg.kind \notin {"unexpected", "bridge_failed"}

\* the parts of C28 that hold: everything for the generic REST parse, and for
\* the bridge the message of the exception and the unwrapped ParseError
C28_Aux_AllButBridgeTypeName ==
    (Done /\ (parser = "rest" \/ settings.engine = "ocrbridge-ocrmac")) =>
        /\ UnexpectedException # "" =>
              /\ result.how = "raised"
              /\ parser = "rest" => Contains(result.msg.exc, UnexpectedException)
              /\ Contains(result.msg.exc, ExcText(UnexpectedException))
        /\ (UnexpectedException = "" /\ result.how = "raised")
              => result.msg.kind \notin {"unexpected", "bridge_failed"}

\* the configured method is not one of bearer / api_key / basic, or is empty,
\* or the credential that method uses is not configured
NoCredentialForMethod ==
    \/ settings.auth_method \notin {"bearer", "Bearer", "api_key", "basic"}
    \/ settings.auth_method \in {"bearer", "Bearer"} /\ settings.auth_token \in {None, ""}
    \/ settings.auth_method \in {"api_key", "basic"} /\ settings.api_key \in {None, ""}

Stripped(s) ==
    CASE s = << " ", "X", " " >> -> << "X" >>
      [] s = << " " >> -> << >>
      [] OTHER -> s

\* C30: a generic REST parse that succeeds leaves as text the extracted text
\* without leading and trailing whitespace; an empty or whitespace-only text
\* gives a success with text ""; the archive stays None for every MIME type;
\* and a 2xx body that is not JSON is taken whole as the text (and succeeds).
C30_RestSuccessText ==
    (parser = "rest" /\ Done) =>
        /\ result = Returned =>
              /\ lastOutcome.kind = "ok"
              /\ archive_path = None
              /\ archiveFile = None
              /\ text.t = "str"
              /\ text.s = << >> \/ (text.s[1] # " " /\ text.s[Len(text.s)] # " ")
        /\ (lastOutcome.kind = "ok" /\ lastOutcome.body.json = "notjson") =>
              /\ result = Returned
              /\ text = StrVal(Stripped(lastOutcome.body.raw))
        /\ (/\ lastOutcome.kind = "ok" /\ lastOutcome.body.json = "dict"
            /\ "text" \in DOMAIN lastOutcome.body.d
            /\ lastOutcome.body.d["text"].t = "str") =>
              /\ result = Returned
              /\ text = StrVal(Stripped(lastOutcome.body.d["text"].s))

C30_Witness ==
    /\ parser = "rest" /\ Done
    /\ doc.mime_type = "image/png"
    /\ lastOutcome.kind = "ok"
    /\ lastOutcome.body.json = "notjson"
    /\ lastOutcome.body.raw = << " " >>
    /\ result = Returned
    /\ text = StrVal(<< >>)
    /\ archive_path = None

\* C31: a generic REST parse never invokes the transport more than
\* max(1, N) times, whatever the outcomes are, and it ends: it returns or
\* raises ParseError.
C31_RestParseTerminates ==
    /\ [](parser = "rest" => posts <= Max(1, settings.retry_count))
    /\ [](parser = "rest" /\ Done => result.how \in {"returned", "raised"})
    /\ (parser = "rest" => <>Done)

C31_Witness ==
    /\ parser = "rest" /\ Done
    /\ settings.retry_count = MaxRetry
    /\ posts = MaxRetry
    /\ AllRetryable
    /\ result.how = "raised"

\* C32: in a generic REST parse a backoff sleep happens only between two
\* attempts: none before the first attempt, one pending only while the next
\* attempt is still to come, and at the end one fewer than the transport
\* invocations (none when the transport was never invoked).
C32_SleepsBetweenAttempts ==
    parser = "rest" =>
        /\ posts = 0 => Len(sleepLog) = 0
        /\ pc = "sleeping" => Len(sleepLog) = posts
        /\ posts >= 1 /\ pc # "sleeping" => Len(sleepLog) = posts - 1
        /\ Done /\ posts >= 1 =>
              /\ Len(sleepLog) = posts - 1
              /\ Len(responses) = posts

C32_Witness ==
    /\ parser = "rest" /\ Done
    /\ posts = 3
    /\ Len(sleepLog) = 2
    /\ result.how = "raised"
    /\ lastOutcome.kind = "http_error" /\ lastOutcome.status < 500

\* C33: with the document-intelligence and bridge backends an archive is set
\* only together with extracted text: a parse that ends without text (text
\* None after a caught provider error, or ParseError raised) has not set
\* archive_path.
C33_ArchiveOnlyWithText ==
    (parser = "remote" /\ Done /\ (text = NullVal \/ result.how = "raised"))
        => /\ archive_path = None
           /\ archiveFile = None

\* the two ends that set archive_path without text
C33_AzurePdfFailedArchiveSet ==
    /\ AzureRun /\ Done
    /\ responses = << "Ok", "Ok", "Ok", "Error" >>
    /\ text = NullVal
    /\ archive_path = "archive.pdf"

C33_BridgeNoTextArchiveSet ==
    /\ BridgeRun /\ Done
    /\ result = Raised(MsgBridgeNoText)
    /\ text = NullVal
    /\ archive_path = "archive.pdf"

----------------------------------------------------------------------------
(* parse called again on the same generic REST parser instance, the service
   free to answer the second call differently from the first *)

\* what the instance holds when the second call starts
Before == [how |-> "before", text |-> text, archive_path |-> archive_path]

\* the second call of parse: the per-call state starts afresh, the instance
\* keeps text, archive_path and the archive file of the first call
ParseAnew ==
    /\ parser = "rest"
    /\ pc = "done"
    /\ call = NoCall
    /\ call' = SecondParse
    /\ ret' = Before
    /\ pc' = "idle"
    /\ attempt' = 0
    /\ posts' = 0
    /\ postLog' = <<>>
    /\ sleepLog' = <<>>
    /\ responses' = <<>>
    /\ lastOutcome' = NoOutcome
    /\ result' = NoResult
    /\ clientsMade' = 0
    /\ clientsOpen' = 0
    /\ calls' = <<>>
    /\ errorLogs' = 0
    /\ requestLog' = <<>>
    /\ UNCHANGED << cfgVars, text, archive_path, archiveFile >>

AgainNext ==
    \/ Next
    \/ ParseAnew

AgainSpec == Init /\ [][AgainNext]_vars

\* what the instance held when the running call of parse started
AtCallStart ==
    IF call = SecondParse
    THEN [text |-> ret.text, archive_path |-> ret.archive_path]
    ELSE [text |-> NullVal, archive_path |-> None]

RestFailed == parser = "rest" /\ Done /\ result.how = "raised"

\* C34: a generic REST parse that ends in failure leaves text and
\* archive_path as they were when the call started; a step of a REST parse
\* changes either only when it is the step that returns, after the transport
\* succeeded and the text was extracted.
C34_RestFailureLeavesTextAndArchive ==
    /\ [](RestFailed => /\ text = AtCallStart.text
                        /\ archive_path = AtCallStart.archive_path)
    /\ [][(parser = "rest" /\ (text' # text \/ archive_path' # archive_path))
            => /\ lastOutcome'.kind = "ok"
               /\ result' = Returned
               /\ text' = StoredText(extract_text_from_response(ResponseData(lastOutcome'.body)).v).v]_vars

C34_Witness ==
    /\ RestFailed
    /\ call = SecondParse
    /\ posts >= 1
    /\ ret.text = StrVal(<<"X">>)
    /\ text = StrVal(<<"X">>)

====
